---- MODULE Spec2Model ----
(***************************************************************************)
(* A model of the ipa allocation engine (src/ipa.py, src/subnet.py):       *)
(* IPPool (best-fit subnet allocator), IpRangeAllocator (range slicer),    *)
(* VlanPool (sequential vlan ids), filter_entries and alloc_ips.           *)
(*                                                                         *)
(* An IP address is its integer value.  An IPNetwork is a record           *)
(* [first, plen]; a netaddr.IPSet is the set of its CIDR blocks; an        *)
(* IPRange is a record [first, last].                                      *)
(***************************************************************************)
EXTENDS Integers, Sequences, FiniteSets, TLC

VARIABLES
    \* ---- one IPPool exercised directly (SpecPool)
    upool,      \* [pool, reserved]: the IPPool's two IPSets
    uinit,      \* the IPSet the pool was created with
    ulast,      \* the last call made on it and its outcome
    \* ---- one IpRangeAllocator exercised directly (SpecSlicer)
    srange,     \* self._range
    slast,      \* the last alloc() call and its outcome
    \* ---- one VlanPool exercised directly (SpecVlan)
    vpool,      \* [first, last, next]: range(first, last) and the iterator's position
    vlast,      \* the last call and its outcome
    vissued,    \* the ids alloc() has returned so far, in order
    \* ---- runs of alloc_ips over a growing input file (Spec)
    d_subnet,   \* d['subnet']
    d_ipam,     \* d['ipam']: the nodes in file order, each with its schema
    pfile,      \* the json file of the last successful run (empty: none yet)
    pinfo,      \* how pfile came about: [first, ipam, subnet], see Commit
    pc,         \* where the current run stands
    p,          \* alloc_ips' argument p, as far as d's entries go
    old,        \* filter_entries' old entries, in the order run_for takes them
    new,        \* filter_entries' new entries
    vp,         \* the VlanPools by name
    ipp,        \* the IPPools by subnet name
    ipr,        \* the IpRangeAllocators by parent key
    tmp,        \* the records by (node, name)
    res,        \* the value alloc_ips returns
    err         \* the exception that ended the run

poolVars == <<upool, uinit, ulast>>
slicerVars == <<srange, slast>>
vlanVars == <<vpool, vlast, vissued>>
inputVars == <<d_subnet, d_ipam, pfile, pinfo>>
runVars == <<p, old, new, vp, ipp, ipr, tmp, res, err>>
planVars == <<inputVars, pc, runVars>>
vars == <<poolVars, slicerVars, vlanVars, planVars>>

-----------------------------------------------------------------------------
(* netaddr: addresses, networks, ranges *)

\* IPv4 address width in bits
Width == 32

\* the integer value of a dotted quad a.b.c.d
IP(a, b, c, d) == ((a * 256 + b) * 256 + c) * 256 + d

\* the python value None where an address or an id is expected
None == -1

Net(first, plen) == [first |-> first, plen |-> plen]

\* IPNetwork.size
NetSize(net) == 2 ^ (Width - net.plen)

\* IPNetwork.last
NetLast(net) == net.first + NetSize(net) - 1

\* IPNetwork.__getitem__ / IPRange.__getitem__ over the addresses first..last:
\* a negative index counts from the end, an index out of range raises IndexError
Index(first, last, i) ==
    LET size == last - first + 1 IN
    IF 0 - size <= i /\ i < 0 THEN [ok |-> TRUE, ip |-> last + i + 1]
    ELSE IF 0 <= i /\ i <= size - 1 THEN [ok |-> TRUE, ip |-> first + i]
    ELSE [ok |-> FALSE, ip |-> None]

NetIndex(net, i) == Index(net.first, NetLast(net), i)

RangeIndex(r, i) == Index(r.first, r.last, i)

\* IPRange.size
RangeSize(r) == r.last - r.first + 1

\* netaddr.IPRange(start, end): AddrFormatError when start > end
IPRange(start, end) ==
    IF start <= end THEN [ok |-> TRUE, first |-> start, last |-> end]
    ELSE [ok |-> FALSE, first |-> None, last |-> None]

\* c in b, for two networks
Contains(b, c) ==
    b.plen <= c.plen /\ b.first <= c.first /\ NetLast(c) <= NetLast(b)

Overlaps(b, c) == Contains(b, c) \/ Contains(c, b)

-----------------------------------------------------------------------------
(* netaddr.IPSet *)

RECURSIVE Compact(_)
\* IPSet.compact() (cidr_merge): drop the blocks inside another block and
\* merge the two halves of a larger block, until nothing changes
Compact(S) ==
    LET inner == {c \in S : \E b \in S : b # c /\ Contains(b, c)}
        S1 == S \ inner
        Sib(b) == Net(b.first + NetSize(b), b.plen)
        low == {b \in S1 : b.plen > 0 /\ b.first % (2 * NetSize(b)) = 0
                            /\ Sib(b) \in S1}
    IN  IF inner # {} THEN Compact(S1)
        ELSE IF low # {}
        THEN Compact((S1 \ (low \cup {Sib(b) : b \in low}))
                     \cup {Net(b.first, b.plen - 1) : b \in low})
        ELSE S1

RECURSIVE CidrExclude(_, _)
\* netaddr.cidr_exclude(target, exclude), exclude inside target: the blocks
\* of target that are left
CidrExclude(b, c) ==
    IF b = c THEN {}
    ELSE LET lo == Net(b.first, b.plen + 1)
             hi == Net(b.first + NetSize(b) \div 2, b.plen + 1)
         IN  IF Contains(lo, c) THEN {hi} \cup CidrExclude(lo, c)
             ELSE {lo} \cup CidrExclude(hi, c)

\* IPSet.add(net)
IPSetAdd(S, c) == Compact(S \cup {c})

\* IPSetRemove that leaves the set as it is
IPSetRemoveNothing(S, c) == S

\* IPSet.remove(net): add it, then cut it out of the block that holds it
IPSetRemove(S, c) ==
    LET S1 == IPSetAdd(S, c)
        m == {b \in S1 : Contains(b, c)}
    IN  IF m = {} THEN S1
        ELSE LET b == CHOOSE x \in m : TRUE
             IN  (S1 \ {b}) \cup CidrExclude(b, c)

RECURSIVE IterCidrs(_)
\* IPSet.iter_cidrs(): the blocks sorted by address
IterCidrs(S) ==
    IF S = {} THEN <<>>
    ELSE LET m == CHOOSE b \in S : \A c \in S :
                      b.first < c.first \/ (b.first = c.first /\ b.plen <= c.plen)
         IN  <<m>> \o IterCidrs(S \ {m})

\* IPSetIntersects finding no intersection ever
IPSetIntersectsNever(S, T) == FALSE

\* bool(IPSet.intersection(other))
IPSetIntersects(S, T) == \E b \in S, c \in T : Overlaps(b, c)

\* IPSetUpdate adding nothing
IPSetUpdateNothing(S, T) == S

\* IPSet.update(other)
IPSetUpdate(S, T) == Compact(S \cup T)

\* the addresses two block sets hold are the same
SameAddresses(S, T) == Compact(S) = Compact(T)

-----------------------------------------------------------------------------
(* subnet.IPPool *)

\* IPPool(cidr): pool = IPSet(net), reserved = IPSet()
IPPoolNew(net) == [pool |-> Compact({net}), reserved |-> {}, input |-> net]

\* the initial best_match of allocate_subnet: (None, 999)
NoCost == 999

NoNet == Net(None, None)

RECURSIVE ScanFirstFit(_, _, _, _)
\* ScanBest without the comparison of costs: the first net that is big enough
ScanFirstFit(cidrs, i, prefixlen, best) ==
    IF i > Len(cidrs) THEN best
    ELSE IF cidrs[i].plen <= prefixlen
    THEN [net |-> cidrs[i], cost |-> prefixlen - cidrs[i].plen]
    ELSE ScanFirstFit(cidrs, i + 1, prefixlen, best)

RECURSIVE ScanBest(_, _, _, _)
\* the loop of allocate_subnet over self.pool.iter_cidrs()
ScanBest(cidrs, i, prefixlen, best) ==
    IF i > Len(cidrs) THEN best
    ELSE LET net == cidrs[i] IN
         IF net.plen = prefixlen THEN [net |-> net, cost |-> 0]
         ELSE IF net.plen < prefixlen /\ prefixlen - net.plen < best.cost
         THEN ScanBest(cidrs, i + 1, prefixlen,
                       [net |-> net, cost |-> prefixlen - net.plen])
         ELSE ScanBest(cidrs, i + 1, prefixlen, best)

\* BestMatch taking a block of exactly the asked prefix length only
BestMatchExact(S, prefixlen) ==
    IF \E c \in S : c.plen = prefixlen
    THEN [net |-> CHOOSE c \in S : c.plen = prefixlen /\ \A e \in S :
                                       e.plen = prefixlen => c.first <= e.first,
          cost |-> 0]
    ELSE [net |-> NoNet, cost |-> NoCost]

\* allocate_subnet up to the end of its loop: (None, 999) when nothing fits
BestMatch(S, prefixlen) ==
    ScanBest(IterCidrs(S), 1, prefixlen, [net |-> NoNet, cost |-> NoCost])

\* next(net.subnet(prefixlen)): the first subnet of that prefix length
FirstSubnet(net, prefixlen) == Net(net.first, prefixlen)

\* IPPool.allocate_subnet: [ok, subnet, ipp], ipp the pool afterwards
AllocateSubnet(self, prefixlen) ==
    LET compacted == Compact(self.pool)
        best == BestMatch(compacted, prefixlen)
        subnet == FirstSubnet(best.net, prefixlen)
    IN  IF best.net = NoNet \/ prefixlen > Width
        THEN [ok |-> FALSE, subnet |-> NoNet,
              ipp |-> [self EXCEPT !.pool = compacted]]
        ELSE [ok |-> TRUE, subnet |-> subnet,
              ipp |-> [self EXCEPT !.reserved = IPSetAdd(self.reserved, subnet),
                                  !.pool = IPSetRemove(compacted, subnet)]]

\* IPPool.allocate_biggest_subnet: [ok, subnet, ipp]
AllocateBiggestSubnet(self) ==
    LET compacted == Compact(self.pool)
        cidrs == IterCidrs(compacted)
    IN  IF Len(cidrs) = 0
        THEN [ok |-> FALSE, subnet |-> NoNet,
              ipp |-> [self EXCEPT !.pool = compacted]]
        ELSE [ok |-> TRUE, subnet |-> cidrs[1],
              ipp |-> [self EXCEPT !.pool = compacted,
                                  !.reserved = IPSetAdd(self.reserved, cidrs[1])]]

-----------------------------------------------------------------------------
(* subnet.IpRangeAllocator *)

\* IpRangeAllocator.__init__(net, start_index, end_index): a missing (or 0)
\* index stands for 1 resp. -2; [ok, first, last], ok false when netaddr raises
IpRangeAllocatorNew(net, start_index, end_index) ==
    LET start_idx == IF start_index # 0 THEN start_index ELSE 1
        end_idx == IF end_index # 0 THEN end_index ELSE -2
        s == NetIndex(net, start_idx)
        e == NetIndex(net, end_idx)
    IN  IF s.ok /\ e.ok THEN IPRange(s.ip, e.ip)
        ELSE [ok |-> FALSE, first |-> None, last |-> None]

NoRange == [first |-> None, last |-> None]

\* AllocBack that does not narrow self._range
AllocBackKept(range, size) ==
    LET len == RangeSize(range)
        sip == RangeIndex(range, len - size)
        r == IPRange(sip.ip, range.last)
    IN  IF sip.ok /\ r.ok
        THEN [ok |-> TRUE, r |-> [first |-> r.first, last |-> r.last], range |-> range]
        ELSE [ok |-> FALSE, r |-> NoRange, range |-> range]

\* IpRangeAllocator.alloc, allocating from the back
AllocBack(range, size) ==
    LET len == RangeSize(range)
        sip == RangeIndex(range, len - size)
        eip == RangeIndex(range, len - size - 1)
        r == IPRange(sip.ip, range.last)
        rest == IPRange(range.first, eip.ip)
    IN  IF sip.ok /\ eip.ok /\ r.ok /\ rest.ok
        THEN [ok |-> TRUE, r |-> [first |-> r.first, last |-> r.last],
              range |-> [first |-> rest.first, last |-> rest.last]]
        ELSE [ok |-> FALSE, r |-> NoRange, range |-> range]

\* IpRangeAllocator.alloc, allocating from the front
AllocFront(range, size) ==
    LET eip == RangeIndex(range, size - 1)
        sip == RangeIndex(range, size)
        r == IPRange(range.first, eip.ip)
        rest == IPRange(sip.ip, range.last)
    IN  IF sip.ok /\ eip.ok /\ r.ok /\ rest.ok
        THEN [ok |-> TRUE, r |-> [first |-> r.first, last |-> r.last],
              range |-> [first |-> rest.first, last |-> rest.last]]
        ELSE [ok |-> FALSE, r |-> NoRange, range |-> range]

\* Alloc without its assertion
AllocNoAssert(range, size, from_the_back) ==
    IF from_the_back THEN AllocBack(range, size)
    ELSE AllocFront(range, size)

\* IpRangeAllocator.alloc(size, from_the_back): [ok, r, range], r the range
\* returned and range the new self._range; ok false when the assertion
\* fails or netaddr raises, and self._range is then as it was
Alloc(range, size, from_the_back) ==
    IF ~(size < RangeSize(range))
    THEN [ok |-> FALSE, r |-> NoRange, range |-> range]
    ELSE IF from_the_back THEN AllocBack(range, size)
    ELSE AllocFront(range, size)

-----------------------------------------------------------------------------
(* ipa.VlanPool *)

\* VlanPool(first, last): iter(range(first, last)), next the value the
\* iterator yields next
VlanPoolNew(first, last) == [first |-> first, last |-> last, next |-> first]

\* VlanAlloc with the end of the range taken as inclusive
VlanAllocInclusive(self) ==
    IF self.next <= self.last
    THEN [ok |-> TRUE, id |-> self.next, vp |-> [self EXCEPT !.next = self.next + 1]]
    ELSE [ok |-> FALSE, id |-> None, vp |-> self]

\* VlanPool.alloc(): next(self.pool); StopIteration once the range is used up
VlanAlloc(self) ==
    IF self.next < self.last
    THEN [ok |-> TRUE, id |-> self.next, vp |-> [self EXCEPT !.next = self.next + 1]]
    ELSE [ok |-> FALSE, id |-> None, vp |-> self]

\* VlanPool.unused(): list(self.pool) runs the iterator to its end, then
\* (u[0], u[-1] + 1), IndexError when nothing was left
VlanUnused(self) ==
    IF self.next < self.last
    THEN [ok |-> TRUE, lo |-> self.next, hi |-> (self.last - 1) + 1,
          vp |-> [self EXCEPT !.next = self.last]]
    ELSE [ok |-> FALSE, lo |-> None, hi |-> None, vp |-> self]

-----------------------------------------------------------------------------
(* ipa: the input file d *)

\* d['subnet']: the declarations in file order; kind says which key the
\* declaration holds, 'cidr' or 'from' (with 'prefixlen')
SubnetDecl(name, kind, cidr, from, prefixlen) ==
    [name |-> name, kind |-> kind, cidr |-> cidr, from |-> from,
     prefixlen |-> prefixlen]

SubnetCatalogue ==
    { << SubnetDecl("s1", "cidr", Net(IP(10, 0, 0, 0), 24), "", None),
         SubnetDecl("s2", "cidr", Net(IP(10, 0, 1, 0), 27), "", None),
         SubnetDecl("s3", "from", NoNet, "s2", 30) >> }

\* d['vlan_pool']
VlanDecls == [v1 |-> [start |-> 100, end |-> 102]]

\* d['ipam'][node]['subnet'], ['vlan_pool'] and ['ip_range']: what an entry's
\* label selects; every node of the model carries the same three maps.  A
\* parent reference is the string cut at its dots: ".x" is <<".", "x">>
NodeSubnet == [a |-> "s1", b |-> "s2", c |-> "s3"]

NodeVlanPool == [a |-> "v1"]

NodeIpRange == [ra |-> <<".", "x">>, rb |-> <<"n1", ".", "x">>]

\* the schema entries a node may declare: 'prefixlen' or 'size' under req
Templates ==
    { [label |-> "a", req |-> "prefixlen", prefixlen |-> 30, size |-> 0],
      [label |-> "b", req |-> "prefixlen", prefixlen |-> 29, size |-> 0],
      [label |-> "c", req |-> "prefixlen", prefixlen |-> 31, size |-> 0],
      [label |-> "ra", req |-> "size", prefixlen |-> None, size |-> 1],
      [label |-> "rb", req |-> "size", prefixlen |-> None, size |-> -2] }

\* the nodes and, per node, the entry names the input file may come to hold
Nodes == {"n1", "n2"}

NodeNames == [n1 |-> {"x", "y"}, n2 |-> {"x", "y"}]

Entry(name, t) ==
    [name |-> name, label |-> t.label, req |-> t.req,
     prefixlen |-> t.prefixlen, size |-> t.size]

RECURSIVE SchemaKeys(_, _)
\* the (node, name) keys of d['ipam'] in declaration order, from node i on
SchemaKeys(ipam, i) ==
    IF i > Len(ipam) THEN <<>>
    ELSE [j \in 1..Len(ipam[i].schema) |-> <<ipam[i].node, ipam[i].schema[j].name>>]
         \o SchemaKeys(ipam, i + 1)

RECURSIVE SchemaEntries(_, _)
\* the entries of d['ipam'] in declaration order, each with its key
SchemaEntries(ipam, i) ==
    IF i > Len(ipam) THEN <<>>
    ELSE [j \in 1..Len(ipam[i].schema) |->
             [k |-> <<ipam[i].node, ipam[i].schema[j].name>>, s |-> ipam[i].schema[j]]]
         \o SchemaEntries(ipam, i + 1)

Range(seq) == {seq[i] : i \in DOMAIN seq}

InsertAt(seq, pos, e) == SubSeq(seq, 1, pos - 1) \o <<e>> \o SubSeq(seq, pos, Len(seq))

-----------------------------------------------------------------------------
(* ipa.convert_vlans, ipa.convert_subnets *)

\* convert_vlans(d)
ConvertVlans(vlans) ==
    [k \in DOMAIN vlans |-> VlanPoolNew(vlans[k].start, vlans[k].end)]

Fail(st, e) == [st EXCEPT !.ok = FALSE, !.err = e]

\* the depth at which python gives up a recursion (RecursionError)
RecursionLimit == 1000

DeclOf(subnets, k) == subnets[CHOOSE i \in DOMAIN subnets : subnets[i].name = k]

RECURSIVE ChainEnds(_, _, _, _)
\* whether the calls convert_subnet(k), convert_subnet(d['subnet'][k]['from']),
\* ... come, within n calls, to one that does not call on: acc does not change
\* along the chain, so a chain longer than the declarations repeats a name
\* and goes on for ever
ChainEnds(subnets, st, k, n) ==
    IF k \notin {subnets[i].name : i \in DOMAIN subnets} THEN TRUE
    ELSE LET v == DeclOf(subnets, k) IN
         IF v.kind # "from" \/ v.from \in DOMAIN st.acc THEN TRUE
         ELSE IF n = 0 THEN FALSE
         ELSE ChainEnds(subnets, st, v.from, n - 1)

RECURSIVE ConvertSubnet(_, _, _, _)
\* convert_subnets.convert_subnet(k) on st = [ok, err, acc, pools]; a chain
\* of calls that does not end passes every depth, RecursionLimit too
ConvertSubnet(subnets, st, k, depth) ==
    IF ~st.ok THEN st
    ELSE IF depth > RecursionLimit THEN Fail(st, "RecursionError")
    ELSE IF k \notin {subnets[i].name : i \in DOMAIN subnets} THEN Fail(st, "KeyError")
    ELSE LET v == DeclOf(subnets, k) IN
         IF v.kind = "cidr"
         THEN LET pool == IPPoolNew(v.cidr) IN
              IF IPSetIntersects(st.pools, pool.pool) THEN Fail(st, "AssertionError")
              ELSE [st EXCEPT !.pools = IPSetUpdate(st.pools, pool.pool),
                              !.acc = (k :> pool) @@ st.acc]
         ELSE IF v.kind = "from"
         THEN IF v.from \notin DOMAIN st.acc
              THEN IF ~ChainEnds(subnets, st, v.from, Len(subnets))
                   THEN Fail(st, "RecursionError")
                   ELSE ConvertSubnet(subnets, st, v.from, depth + 1)
              ELSE LET a == AllocateSubnet(st.acc[v.from], v.prefixlen) IN
                   IF ~a.ok THEN Fail(st, "SubnettingError")
                   ELSE [st EXCEPT !.acc = (k :> IPPoolNew(a.subnet))
                                            @@ (v.from :> a.ipp) @@ st.acc]
         ELSE st

RECURSIVE ConvertLoop(_, _, _)
\* the loop of convert_subnets over d['subnet']
ConvertLoop(subnets, st, i) ==
    IF i > Len(subnets) \/ ~st.ok THEN st
    ELSE ConvertLoop(subnets, ConvertSubnet(subnets, st, subnets[i].name, 1), i + 1)

EmptyMap == [x \in {} |-> None]

\* convert_subnets(d): [ok, err, acc, pools]
ConvertSubnets(subnets) ==
    ConvertLoop(subnets, [ok |-> TRUE, err |-> "", acc |-> EmptyMap, pools |-> {}], 1)

-----------------------------------------------------------------------------
(* ipa.filter_entries *)

\* the metadata dict of an entry: a key not set yet is "" (parent: <<>>)
NewMetadata == [id |-> 0, type |-> "", label |-> "", parent |-> <<>>]

RECURSIVE FilterLoop(_, _, _, _)
\* the first loop of filter_entries: [old, new], each a sequence of
\* [k, s, alias]; alias says that s['metadata'] is the snapshot's own dict
FilterLoop(entries, prev, i, acc) ==
    IF i > Len(entries) THEN acc
    ELSE LET e == entries[i]
             s == [name |-> e.s.name, label |-> e.s.label, req |-> e.s.req,
                   prefixlen |-> e.s.prefixlen, size |-> e.s.size]
         IN  IF e.k \notin DOMAIN prev
             THEN FilterLoop(entries, prev, i + 1,
                      [acc EXCEPT !.new = Append(@, [k |-> e.k, alias |-> FALSE,
                           s |-> s @@ [metadata |-> NewMetadata]])])
             ELSE FilterLoop(entries, prev, i + 1,
                      [acc EXCEPT !.old = Append(@, [k |-> e.k, alias |-> TRUE,
                           s |-> s @@ [metadata |-> prev[e.k].metadata]])])

RECURSIVE MaxId(_, _, _)
\* max([x['metadata']['id'] for x in old.values()] or [0])
MaxId(olds, i, m) ==
    IF i > Len(olds) THEN m
    ELSE MaxId(olds, i + 1, IF i = 1 \/ olds[i].s.metadata.id > m
                           THEN olds[i].s.metadata.id ELSE m)

\* LastId that forgets the ids of the old entries
LastIdZero(olds) == 0

LastId(olds) == MaxId(olds, 1, 0)

\* the second loop: the new entries get last_id + 1, last_id + 2, ...
AssignIds(news, last_id) ==
    [i \in 1..Len(news) |-> [news[i] EXCEPT !.s.metadata.id = last_id + i]]

RECURSIVE InsertSorted(_, _)
InsertSorted(sorted, e) ==
    IF sorted = <<>> THEN <<e>>
    ELSE IF e.s.metadata.id < sorted[Len(sorted)].s.metadata.id
    THEN Append(InsertSorted(SubSeq(sorted, 1, Len(sorted) - 1), e), sorted[Len(sorted)])
    ELSE Append(sorted, e)

\* SortById that leaves the entries in the order of the input file
SortByIdUnsorted(olds) == olds

\* SortById with the order turned round
SortByIdDescending(olds) ==
    LET RECURSIVE Ins(_, _)
        Ins(sorted, e) ==
            IF sorted = <<>> THEN <<e>>
            ELSE IF e.s.metadata.id > sorted[Len(sorted)].s.metadata.id
            THEN Append(Ins(SubSeq(sorted, 1, Len(sorted) - 1), e), sorted[Len(sorted)])
            ELSE Append(sorted, e)
        RECURSIVE Srt(_)
        Srt(q) == IF q = <<>> THEN <<>>
                  ELSE Ins(Srt(SubSeq(q, 1, Len(q) - 1)), q[Len(q)])
    IN  Srt(olds)

RECURSIVE SortById(_)
\* sorted(old.items(), key=id): ascending and stable
SortById(olds) ==
    IF olds = <<>> THEN <<>>
    ELSE InsertSorted(SortById(SubSeq(olds, 1, Len(olds) - 1)), olds[Len(olds)])

\* filter_entries(d, p): [old, new]
FilterEntriesAllNew(ipam, prev) ==
    LET f == FilterLoop(SchemaEntries(ipam, 1), EmptyMap, 1, [old |-> <<>>, new |-> <<>>])
    IN  [old |-> <<>>, new |-> AssignIds(f.new, 0)]

FilterEntries(ipam, prev) ==
    LET f == FilterLoop(SchemaEntries(ipam, 1), prev, 1, [old |-> <<>>, new |-> <<>>])
    IN  [old |-> SortById(f.old), new |-> AssignIds(f.new, LastId(f.old))]

-----------------------------------------------------------------------------
(* ipa.alloc_ips: run_for *)

RECURSIVE SplitFrom(_, _, _, _)
SplitFrom(str, i, cur, parts) ==
    IF i > Len(str) THEN Append(parts, cur)
    ELSE IF str[i] = "." THEN SplitFrom(str, i + 1, <<>>, Append(parts, cur))
    ELSE SplitFrom(str, i + 1, Append(cur, str[i]), parts)

\* parent_str.split('.'): the parts between the dots, '' for an empty part
Split(str) ==
    LET parts == SplitFrom(str, 1, <<>>, <<>>)
    IN  [i \in 1..Len(parts) |-> IF parts[i] = <<>> THEN "" ELSE parts[i][1]]

\* the ip_range of a freshly allocated subnet: net[sidx] .. net[eidx]
UsableRange(net) ==
    LET eidx == IF NetSize(net) >= 4 THEN -2 ELSE -1
        sidx == IF NetSize(net) >= 4 THEN 1 ELSE 0
        r == IPRange(NetIndex(net, sidx).ip, NetIndex(net, eidx).ip)
    IN  [first |-> r.first, last |-> r.last]

\* Gateway with the broadcast address taken for the last usable one
GatewayLast(net) == IF NetSize(net) >= 4 THEN NetIndex(net, -1).ip ELSE None

\* gw_ip: the last usable address, when the net is big enough
Gateway(net) == IF NetSize(net) >= 4 THEN NetIndex(net, -2).ip ELSE None

\* the entry of tmp for key k
Record(vid, ip_range, gw_ip, net, metadata) ==
    [vlan |-> vid, ip_range |-> ip_range, gateway |-> gw_ip, cidr |-> net,
     prefixlen |-> net.plen, metadata |-> metadata]

\* s['metadata'].update(...) followed by tmp[k] = {...}: the dict updated is
\* the snapshot's own when the entry is an old one
Store(st, e, rec) ==
    [st EXCEPT !.tmp = (e.k :> rec) @@ st.tmp,
               !.p = IF e.alias
                     THEN [st.p EXCEPT ![e.k].metadata = rec.metadata]
                     ELSE st.p]

\* one round of the first loop of run_for, for the entry e = [k, s, alias]
DirectEntry(st, e) ==
    LET s == e.s IN
    IF s.req = "size"
    THEN IF s.label \notin DOMAIN NodeIpRange THEN Fail(st, "KeyError")
         ELSE LET parent == Split(NodeIpRange[s.label]) IN
              IF Len(parent) # 2 THEN Fail(st, "AssertionError")
              ELSE [st EXCEPT !.deferred = Append(@,
                        [e |-> e, node_k |-> parent[1], entry_k |-> parent[2]])]
    ELSE IF s.label \notin DOMAIN NodeSubnet THEN Fail(st, "KeyError")
    ELSE IF NodeSubnet[s.label] \notin DOMAIN st.ipp THEN Fail(st, "KeyError")
    ELSE LET subnet_name == NodeSubnet[s.label]
             has_vlan == s.label \in DOMAIN NodeVlanPool
                         /\ NodeVlanPool[s.label] \in DOMAIN st.vp
             va == VlanAlloc(st.vp[NodeVlanPool[s.label]])
             vid == IF has_vlan THEN va.id ELSE None
             vp1 == IF has_vlan
                    THEN [st.vp EXCEPT ![NodeVlanPool[s.label]] = va.vp]
                    ELSE st.vp
             a == AllocateSubnet(st.ipp[subnet_name], s.prefixlen)
             net == a.subnet
         IN  IF has_vlan /\ ~va.ok THEN Fail(st, "StopIteration")
             ELSE IF s.req # "prefixlen"
             THEN Fail([st EXCEPT !.vp = vp1], "NotImplementedError")
             ELSE IF ~a.ok THEN Fail([st EXCEPT !.vp = vp1], "SubnettingError")
             ELSE Store([st EXCEPT !.vp = vp1,
                                   !.ipp = [st.ipp EXCEPT ![subnet_name] = a.ipp]],
                        e,
                        Record(vid, UsableRange(net), Gateway(net), net,
                               [s.metadata EXCEPT !.type = "subnet",
                                                  !.label = s.label]))

\* one round of the second loop of run_for, for the deferred entry v
DeferredEntry(st, v) ==
    LET s == v.e.s
        node_k == IF v.node_k # "" THEN v.node_k ELSE v.e.k[1]
        pk == <<node_k, v.entry_k>>
        net == st.tmp[pk].cidr
        eidx == IF NetSize(net) >= 4 THEN -3 ELSE -2
        fresh == IpRangeAllocatorNew(net, 0, eidx)
        range == IF pk \in DOMAIN st.ipr THEN st.ipr[pk]
                 ELSE [first |-> fresh.first, last |-> fresh.last]
        size == IF s.size < 0 THEN s.size * (-1) ELSE s.size
        from_the_back == s.size < 0
        a == Alloc(range, size, from_the_back)
    IN  IF pk \notin DOMAIN st.tmp THEN Fail(st, "KeyError")
        ELSE IF ~fresh.ok
        THEN Fail(st, IF NetSize(net) < 2 THEN "IndexError" ELSE "AddrFormatError")
        ELSE IF ~a.ok THEN Fail([st EXCEPT !.ipr = (pk :> range) @@ st.ipr],
                                "AssertionError")
        ELSE Store([st EXCEPT !.ipr = (pk :> a.range) @@ st.ipr],
                   v.e,
                   Record(None, a.r, Gateway(net), net,
                          [s.metadata EXCEPT !.type = "ip_range",
                                             !.parent = pk,
                                             !.label = s.label]))

RECURSIVE DirectLoop(_, _, _)
DirectLoop(st, input, i) ==
    IF i > Len(input) \/ ~st.ok THEN st
    ELSE DirectLoop(DirectEntry(st, input[i]), input, i + 1)

RECURSIVE DeferredLoop(_, _)
DeferredLoop(st, i) ==
    IF i > Len(st.deferred) \/ ~st.ok THEN st
    ELSE DeferredLoop(DeferredEntry(st, st.deferred[i]), i + 1)

\* run_for(input_) on st = [ok, err, vp, ipp, ipr, tmp, p, deferred]
RunFor(st, input) ==
    DeferredLoop(DirectLoop([st EXCEPT !.deferred = <<>>], input, 1), 1)

-----------------------------------------------------------------------------
(* ipa.alloc_ips: the result, and its way through json to the next run *)

\* BuildResult leaving out each node's last entry
BuildResultPartial(ipam, recs) ==
    [i \in 1..Len(ipam) |->
        [node |-> ipam[i].node,
         ipa |-> [j \in 1..(Len(ipam[i].schema) - 1) |->
                     [name |-> ipam[i].schema[j].name,
                      rec |-> recs[<<ipam[i].node, ipam[i].schema[j].name>>]]]]]

\* res: per node, in the order of d['ipam'], the records in schema order
BuildResult(ipam, recs) ==
    [i \in 1..Len(ipam) |->
        [node |-> ipam[i].node,
         ipa |-> [j \in 1..Len(ipam[i].schema) |->
                     [name |-> ipam[i].schema[j].name,
                      rec |-> recs[<<ipam[i].node, ipam[i].schema[j].name>>]]]]]

\* ip_range_to_dict(r)
IpRangeToDict(r) ==
    [start |-> RangeIndex(r, 0).ip, end |-> RangeIndex(r, -1).ip, size |-> RangeSize(r)]

\* deobjectify, for one record: what json.dumps writes
Deobjectify(rec) ==
    [rec EXCEPT !.ip_range = IpRangeToDict(rec.ip_range),
                !.gateway = IF rec.gateway # None THEN rec.gateway ELSE None]

\* objectify, for one record read back from the json file
Objectify(rec) ==
    LET r == IPRange(rec.ip_range.start, rec.ip_range.end)
    IN  [rec EXCEPT !.ip_range = [first |-> r.first, last |-> r.last]]

\* res['ipam'][node]['ipa'][name], by key (node, name)
Records(result) ==
    LET keys == UNION {{<<result[i].node, result[i].ipa[j].name>> :
                           j \in 1..Len(result[i].ipa)} : i \in DOMAIN result}
        RecOf(k) == LET i == CHOOSE i \in DOMAIN result : result[i].node = k[1]
                        j == CHOOSE j \in DOMAIN result[i].ipa : result[i].ipa[j].name = k[2]
                    IN  result[i].ipa[j].rec
    IN  [k \in keys |-> RecOf(k)]

\* the json file written from res: per (node, name) the record
Dump(result) ==
    [k \in DOMAIN Records(result) |-> Deobjectify(Records(result)[k])]

\* palloc = objectify(json.load(f))
Load(file) == [k \in DOMAIN file |-> Objectify(file[k])]

-----------------------------------------------------------------------------
(* Bounds *)

\* the longest prefix length asked of the IPPool exercised directly
MaxPrefixLen == 27

\* the largest size asked of the IpRangeAllocator exercised directly
MaxSize == 3

\* the largest number of ids in the VlanPool exercised directly
MaxVlans == 6

\* the number of entries the input file grows to
MaxEntries == 3

-----------------------------------------------------------------------------
(* One IPPool, called directly *)

\* dict_to_ip_pool(d)
DictToIpPool(d) == [IPPoolNew(d.input) EXCEPT !.pool = Compact(d.unused)]

UnitPools ==
    { IPPoolNew(Net(IP(10, 0, 0, 0), 24)),
      IPPoolNew(Net(IP(10, 0, 0, 0), 26)),
      DictToIpPool([input |-> Net(IP(10, 0, 0, 0), 15),
                    unused |-> {Net(IP(10, 0, 0, 0), 24), Net(IP(10, 1, 0, 0), 26)}]),
      DictToIpPool([input |-> Net(IP(10, 0, 0, 0), 22),
                    unused |-> {Net(IP(10, 0, 0, 0), 26), Net(IP(10, 0, 1, 0), 26)}]) }

PrefixLens == 24..MaxPrefixLen

NoCall == [op |-> "none", arg |-> None, ok |-> TRUE]

PoolInit ==
    /\ upool \in UnitPools
    /\ uinit = upool.pool
    /\ ulast = NoCall

PoolIdle ==
    /\ upool = IPPoolNew(Net(IP(10, 0, 0, 0), 24))
    /\ uinit = upool.pool
    /\ ulast = NoCall

\* ipp.allocate_subnet(prefixlen)
PoolAllocateSubnet(prefixlen) ==
    LET a == AllocateSubnet(upool, prefixlen) IN
    /\ upool' = a.ipp
    /\ ulast' = [op |-> "allocate_subnet", arg |-> prefixlen, ok |-> a.ok,
                 subnet |-> a.subnet, before |-> upool]
    /\ UNCHANGED uinit

\* ipp.allocate_biggest_subnet()
PoolAllocateBiggestSubnet ==
    LET a == AllocateBiggestSubnet(upool) IN
    /\ upool' = a.ipp
    /\ ulast' = [op |-> "allocate_biggest_subnet", arg |-> None, ok |-> a.ok,
                 subnet |-> a.subnet, before |-> upool]
    /\ UNCHANGED uinit

-----------------------------------------------------------------------------
(* One IpRangeAllocator, called directly *)

SlicerNets == {Net(IP(10, 0, 0, 0), 28), Net(IP(10, 0, 0, 0), 29), Net(IP(10, 0, 0, 0), 30)}

\* end_index: 0 for the default
SlicerEndIndexes == {0, -3, -6}

SlicerInit ==
    /\ \E net \in SlicerNets, e \in SlicerEndIndexes :
          LET r == IpRangeAllocatorNew(net, 0, e) IN
          /\ r.ok
          /\ srange = [first |-> r.first, last |-> r.last]
    /\ slast = NoCall

SlicerIdle ==
    /\ srange = [first |-> IP(10, 0, 0, 1), last |-> IP(10, 0, 0, 2)]
    /\ slast = NoCall

\* allocator.alloc(size, from_the_back)
SlicerAlloc(size, from_the_back) ==
    LET a == Alloc(srange, size, from_the_back) IN
    /\ srange' = a.range
    /\ slast' = [op |-> "alloc", arg |-> size, back |-> from_the_back, ok |-> a.ok,
                 r |-> a.r, before |-> srange]

-----------------------------------------------------------------------------
(* One VlanPool, called directly *)

VlanFirsts == {1, 100, 1000, 4000}

VlanInit ==
    /\ \E first \in VlanFirsts, n \in 0..MaxVlans : vpool = VlanPoolNew(first, first + n)
    /\ vlast = NoCall
    /\ vissued = <<>>

VlanIdle ==
    /\ vpool = VlanPoolNew(1, 2)
    /\ vlast = NoCall
    /\ vissued = <<>>

\* vlan_pool.alloc()
VlanPoolAlloc ==
    LET a == VlanAlloc(vpool) IN
    /\ vpool' = a.vp
    /\ vlast' = [op |-> "alloc", arg |-> None, ok |-> a.ok, id |-> a.id,
                 before |-> vpool]
    /\ vissued' = IF a.ok THEN Append(vissued, a.id) ELSE vissued

\* vlan_pool.unused()
VlanPoolUnused ==
    LET u == VlanUnused(vpool) IN
    /\ vpool' = u.vp
    /\ vlast' = [op |-> "unused", arg |-> None, ok |-> u.ok, lo |-> u.lo, hi |-> u.hi,
                 before |-> vpool]
    /\ UNCHANGED vissued

-----------------------------------------------------------------------------
(* Runs of alloc_ips over an input file that grows between the runs *)

RunIdle ==
    /\ p = EmptyMap /\ old = <<>> /\ new = <<>>
    /\ vp = EmptyMap /\ ipp = EmptyMap /\ ipr = EmptyMap /\ tmp = EmptyMap
    /\ res = <<>> /\ err = ""

RunReset ==
    /\ p' = EmptyMap /\ old' = <<>> /\ new' = <<>>
    /\ vp' = EmptyMap /\ ipp' = EmptyMap /\ ipr' = EmptyMap /\ tmp' = EmptyMap
    /\ res' = <<>> /\ err' = ""

PlanInit ==
    /\ d_subnet \in SubnetCatalogue
    /\ d_ipam = <<>>
    /\ pfile = EmptyMap
    /\ pinfo = [first |-> FALSE, ipam |-> <<>>, subnet |-> <<>>]
    /\ pc = "idle"
    /\ RunIdle

PlanIdle ==
    /\ d_subnet = <<>>
    /\ d_ipam = <<>>
    /\ pfile = EmptyMap
    /\ pinfo = [first |-> FALSE, ipam |-> <<>>, subnet |-> <<>>]
    /\ pc = "idle"
    /\ RunIdle

DeclaredKeys == Range(SchemaKeys(d_ipam, 1))

CanGrow == pc = "idle" /\ Cardinality(DeclaredKeys) < MaxEntries

\* the user adds an entry to the schema of a node of the input file
AddEntry ==
    /\ CanGrow
    /\ \E i \in DOMAIN d_ipam, t \in Templates :
       \E name \in NodeNames[d_ipam[i].node] :
          /\ <<d_ipam[i].node, name>> \notin DeclaredKeys
          /\ \E pos \in 1..(Len(d_ipam[i].schema) + 1) :
                d_ipam' = [d_ipam EXCEPT ![i].schema = InsertAt(@, pos, Entry(name, t))]
    /\ UNCHANGED <<d_subnet, pfile, pinfo, pc, runVars>>
    /\ UNCHANGED <<poolVars, slicerVars, vlanVars>>

\* the user adds a node, with one entry, to the input file
AddNode ==
    /\ CanGrow
    /\ \E n \in Nodes, t \in Templates :
       \E name \in NodeNames[n] :
          /\ n \notin {d_ipam[i].node : i \in DOMAIN d_ipam}
          /\ \E pos \in 1..(Len(d_ipam) + 1) :
                d_ipam' = InsertAt(d_ipam, pos,
                                   [node |-> n, schema |-> <<Entry(name, t)>>])
    /\ UNCHANGED <<d_subnet, pfile, pinfo, pc, runVars>>
    /\ UNCHANGED <<poolVars, slicerVars, vlanVars>>

\* main() up to and including filter_entries: p is read from the file of
\* the last run ({} on a first run), the pools are built from d
StartRun ==
    /\ pc = "idle"
    /\ \E c \in {ConvertSubnets(d_subnet)}, f \in {FilterEntries(d_ipam, Load(pfile))} :
           /\ p' = Load(pfile)
           /\ vp' = ConvertVlans(VlanDecls)
           /\ ipp' = c.acc
           /\ old' = IF c.ok THEN f.old ELSE <<>>
           /\ new' = IF c.ok THEN f.new ELSE <<>>
           /\ err' = c.err
           /\ pc' = IF c.ok THEN "old" ELSE "failed"
    /\ UNCHANGED <<d_subnet, d_ipam, pfile, pinfo, ipr, tmp, res>>
    /\ UNCHANGED <<poolVars, slicerVars, vlanVars>>

RunState ==
    [ok |-> TRUE, err |-> "", vp |-> vp, ipp |-> ipp, ipr |-> ipr, tmp |-> tmp,
     p |-> p, deferred |-> <<>>]

RunStep(input, next) ==
    \E st \in {RunFor(RunState, input)} :
    /\ vp' = st.vp /\ ipp' = st.ipp /\ ipr' = st.ipr /\ tmp' = st.tmp /\ p' = st.p
    /\ err' = st.err
    /\ pc' = IF st.ok THEN next ELSE "failed"
    /\ UNCHANGED <<inputVars, old, new, res>>
    /\ UNCHANGED <<poolVars, slicerVars, vlanVars>>

\* run_for(old)
RunForOld == pc = "old" /\ RunStep(old, "new")

\* run_for(new)
RunForNew == pc = "new" /\ RunStep(new, "assemble")

\* the rest of alloc_ips: the result is put together and returned
Assemble ==
    /\ pc = "assemble"
    /\ res' = BuildResult(d_ipam, tmp)
    /\ pc' = "done"
    /\ UNCHANGED <<inputVars, p, old, new, vp, ipp, ipr, tmp, err>>
    /\ UNCHANGED <<poolVars, slicerVars, vlanVars>>

\* main() returns the json text and the user keeps it as the file for the
\* next run
Commit ==
    /\ pc = "done"
    /\ pfile' = Dump(res)
    /\ pinfo' = [first |-> DOMAIN p = {}, ipam |-> d_ipam, subnet |-> d_subnet]
    /\ pc' = "idle"
    /\ RunReset
    /\ UNCHANGED <<d_subnet, d_ipam>>
    /\ UNCHANGED <<poolVars, slicerVars, vlanVars>>

\* the exception leaves main(): nothing is written
Abort ==
    /\ pc = "failed"
    /\ pc' = "idle"
    /\ RunReset
    /\ UNCHANGED inputVars
    /\ UNCHANGED <<poolVars, slicerVars, vlanVars>>

-----------------------------------------------------------------------------
(* Runs of alloc_ips over the ways d['subnet'] may be written *)

SubnetNames == {"s1", "s2", "s3"}

CidrChoices ==
    {Net(IP(10, 0, 0, 0), 24), Net(IP(10, 0, 0, 128), 25), Net(IP(10, 0, 1, 0), 27),
     Net(IP(10, 0, 2, 0), 26)}

\* what may stand under a name: a 'cidr', or a 'from' with 'prefixlen': 28
DeclChoices(name) ==
    {SubnetDecl(name, "cidr", c, "", None) : c \in CidrChoices}
    \cup {SubnetDecl(name, "from", NoNet, f, 28) : f \in SubnetNames}

\* d['subnet'] with the three names in any order
ConvertCatalogue ==
    {<<a, b, c>> : a \in UNION {DeclChoices(n) : n \in SubnetNames},
                   b \in UNION {DeclChoices(n) : n \in SubnetNames},
                   c \in UNION {DeclChoices(n) : n \in SubnetNames}}

DistinctNames(subnets) ==
    \A i, j \in DOMAIN subnets : i # j => subnets[i].name # subnets[j].name

\* d['ipam']: an entry for each of the three subnets
ConvertSchema ==
    << [node |-> "n1",
        schema |-> << Entry("x", [label |-> "a", req |-> "prefixlen", prefixlen |-> 30, size |-> 0]),
                      Entry("y", [label |-> "b", req |-> "prefixlen", prefixlen |-> 29, size |-> 0]) >>],
       [node |-> "n2",
        schema |-> << Entry("x", [label |-> "c", req |-> "prefixlen", prefixlen |-> 31, size |-> 0]) >>] >>

ConvertInit ==
    /\ d_subnet \in {c \in ConvertCatalogue : DistinctNames(c)}
    /\ d_ipam = ConvertSchema
    /\ pfile = EmptyMap
    /\ pinfo = [first |-> FALSE, ipam |-> <<>>, subnet |-> <<>>]
    /\ pc = "idle"
    /\ RunIdle

-----------------------------------------------------------------------------
(* Runs of alloc_ips over an input file whose entries are rewritten, or that
   gains a 'from' subnet, between the runs *)

\* d['ipam'] of two nodes with two entries each
EditSchema ==
    << [node |-> "n1",
        schema |-> << Entry("x", [label |-> "b", req |-> "prefixlen", prefixlen |-> 29, size |-> 0]),
                      Entry("y", [label |-> "ra", req |-> "size", prefixlen |-> None, size |-> 1]) >>],
       [node |-> "n2",
        schema |-> << Entry("x", [label |-> "a", req |-> "prefixlen", prefixlen |-> 30, size |-> 0]),
                      Entry("y", [label |-> "c", req |-> "prefixlen", prefixlen |-> 31, size |-> 0]) >>] >>

EditInit ==
    /\ d_subnet \in SubnetCatalogue
    /\ d_ipam = EditSchema
    /\ pfile = EmptyMap
    /\ pinfo = [first |-> FALSE, ipam |-> <<>>, subnet |-> <<>>]
    /\ pc = "idle"
    /\ RunIdle

\* the user rewrites an entry of the node declared last: same name, another
\* label and with it another request
EditEntry ==
    /\ pc = "idle"
    /\ \E i \in {Len(d_ipam)}, t \in Templates :
       \E j \in DOMAIN d_ipam[i].schema :
          /\ d_ipam[i].schema[j].label # t.label
          /\ d_ipam' = [d_ipam EXCEPT ![i].schema[j] = Entry(@.name, t)]
    /\ UNCHANGED <<d_subnet, pfile, pinfo, pc, runVars>>
    /\ UNCHANGED <<poolVars, slicerVars, vlanVars>>

\* d['subnet'] before a 'from' declaration is added to it
BaseSubnets ==
    << SubnetDecl("s1", "cidr", Net(IP(10, 0, 0, 0), 24), "", None),
       SubnetDecl("s2", "cidr", Net(IP(10, 0, 1, 0), 27), "", None) >>

\* d['ipam'] of one node with two entries that ask for a subnet
DeriveSchemas ==
    { << [node |-> "n1", schema |-> << Entry("x", t1), Entry("y", t2) >>] >> :
         t1 \in {t \in Templates : t.req = "prefixlen"},
         t2 \in {t \in Templates : t.req = "prefixlen"} }

DeriveInit ==
    /\ d_subnet = BaseSubnets
    /\ d_ipam \in DeriveSchemas
    /\ pfile = EmptyMap
    /\ pinfo = [first |-> FALSE, ipam |-> <<>>, subnet |-> <<>>]
    /\ pc = "idle"
    /\ RunIdle

\* the user adds the subnet s3 to d['subnet'], as 'from' one of the others
AddDerivedSubnet ==
    /\ pc = "idle"
    /\ "s3" \notin {d_subnet[i].name : i \in DOMAIN d_subnet}
    /\ \E f \in {"s1", "s2"}, prefixlen \in {28, 30}, pos \in 1..(Len(d_subnet) + 1) :
          d_subnet' = InsertAt(d_subnet, pos, SubnetDecl("s3", "from", NoNet, f, prefixlen))
    /\ UNCHANGED <<d_ipam, pfile, pinfo, pc, runVars>>
    /\ UNCHANGED <<poolVars, slicerVars, vlanVars>>

-----------------------------------------------------------------------------
(* Specifications *)

Init == PlanInit /\ PoolIdle /\ SlicerIdle /\ VlanIdle

Next ==
    \/ AddEntry
    \/ AddNode
    \/ StartRun
    \/ RunForOld
    \/ RunForNew
    \/ Assemble
    \/ Commit
    \/ Abort

\* runs of alloc_ips
Spec == Init /\ [][Next]_vars

InitConvert == ConvertInit /\ PoolIdle /\ SlicerIdle /\ VlanIdle

NextConvert ==
    \/ StartRun
    \/ RunForOld
    \/ RunForNew
    \/ Assemble
    \/ Commit
    \/ Abort

\* runs of alloc_ips on one input file, d['subnet'] written in any way
SpecConvert == InitConvert /\ [][NextConvert]_vars

InitEdit == EditInit /\ PoolIdle /\ SlicerIdle /\ VlanIdle

NextEdit ==
    \/ EditEntry
    \/ StartRun
    \/ RunForOld
    \/ RunForNew
    \/ Assemble
    \/ Commit
    \/ Abort

\* runs of alloc_ips on an input file whose entries are rewritten
SpecEdit == InitEdit /\ [][NextEdit]_vars

InitDerive == DeriveInit /\ PoolIdle /\ SlicerIdle /\ VlanIdle

NextDerive ==
    \/ AddDerivedSubnet
    \/ StartRun
    \/ RunForOld
    \/ RunForNew
    \/ Assemble
    \/ Commit
    \/ Abort

\* runs of alloc_ips on an input file that gains a 'from' subnet
SpecDerive == InitDerive /\ [][NextDerive]_vars

InitPool == PoolInit /\ SlicerIdle /\ VlanIdle /\ PlanIdle

NextPool ==
    \/ \E prefixlen \in PrefixLens :
          PoolAllocateSubnet(prefixlen) /\ UNCHANGED <<slicerVars, vlanVars, planVars>>
    \/ PoolAllocateBiggestSubnet /\ UNCHANGED <<slicerVars, vlanVars, planVars>>

\* one IPPool under any calls
SpecPool == InitPool /\ [][NextPool]_vars

InitSlicer == SlicerInit /\ PoolIdle /\ VlanIdle /\ PlanIdle

NextSlicer ==
    \E size \in 0..MaxSize, from_the_back \in BOOLEAN :
        SlicerAlloc(size, from_the_back) /\ UNCHANGED <<poolVars, vlanVars, planVars>>

\* one IpRangeAllocator under any calls
SpecSlicer == InitSlicer /\ [][NextSlicer]_vars

InitVlan == VlanInit /\ PoolIdle /\ SlicerIdle /\ PlanIdle

NextVlan == VlanPoolAlloc /\ UNCHANGED <<poolVars, slicerVars, planVars>>

\* one VlanPool under alloc() calls
SpecVlan == InitVlan /\ [][NextVlan]_vars

NextVlanDiag ==
    \/ VlanPoolAlloc /\ UNCHANGED <<poolVars, slicerVars, planVars>>
    \/ VlanPoolUnused /\ UNCHANGED <<poolVars, slicerVars, planVars>>

\* one VlanPool under alloc() and unused() calls
SpecVlanDiag == InitVlan /\ [][NextVlanDiag]_vars

-----------------------------------------------------------------------------
(* Properties of one IPPool (SpecPool) *)

ExampleFreeSet == {Net(IP(10, 0, 0, 0), 24), Net(IP(10, 1, 0, 0), 26)}

\* C5 (best-fit carving): a successful allocate_subnet(p) takes, from the
\* compacted free set, an exact /p block if there is one, else the block of
\* the longest prefix length <= p, the first by address among equals, and
\* returns the first /p subnet of the block taken; from {10.0.0.0/24,
\* 10.1.0.0/26} a /27 is 10.1.0.0/27
BestFitCarving ==
    /\ (ulast.op = "allocate_subnet" /\ ulast.ok) =>
          LET F == Compact(ulast.before.pool)
              exact == {b \in F : b.plen = ulast.arg}
              fits == {b \in F : b.plen <= ulast.arg}
          IN  \E c \in F :
                 /\ Contains(c, ulast.subnet)
                 /\ ulast.subnet = Net(c.first, ulast.arg)
                 /\ IF exact # {} THEN c \in exact
                    ELSE /\ c \in fits
                         /\ \A b \in fits :
                               b.plen < c.plen \/ (b.plen = c.plen /\ c.first <= b.first)
    /\ (ulast.op = "allocate_subnet" /\ ulast.arg = 27
        /\ Compact(ulast.before.pool) = ExampleFreeSet) =>
          (ulast.ok /\ ulast.subnet = Net(IP(10, 1, 0, 0), 27))

\* C5, its case: the /27 asked of the free set {10.0.0.0/24, 10.1.0.0/26}
BestFitCarvingReached ==
    /\ ulast.op = "allocate_subnet" /\ ulast.ok /\ ulast.arg = 27
    /\ ulast.before.pool = ExampleFreeSet
    /\ Net(IP(10, 1, 0, 0), 26) \notin upool.pool

\* C6 (pool partition): after any calls of allocate_subnet and
\* allocate_biggest_subnet the free set and the reserved set share no
\* address and together hold exactly the addresses the pool began with
PoolPartition ==
    /\ ~IPSetIntersects(upool.pool, upool.reserved)
    /\ SameAddresses(upool.pool \cup upool.reserved, uinit)

-----------------------------------------------------------------------------
(* Properties of one IpRangeAllocator (SpecSlicer) *)

\* C9 (directional slicing): alloc(size, from_the_back) with 0 <= size <
\* the length of the remaining range returns exactly size addresses, the
\* first ones of the remaining range (the last ones from the back), and
\* the remaining range loses exactly those
DirectionalSlicing ==
    (slast.op = "alloc" /\ 0 <= slast.arg /\ slast.arg < RangeSize(slast.before)) =>
        /\ slast.ok
        /\ slast.r.last - slast.r.first + 1 = slast.arg
        /\ IF slast.back
           THEN /\ slast.r.last = slast.before.last
                /\ srange = [first |-> slast.before.first,
                             last |-> slast.before.last - slast.arg]
           ELSE /\ slast.r.first = slast.before.first
                /\ srange = [first |-> slast.before.first + slast.arg,
                             last |-> slast.before.last]

-----------------------------------------------------------------------------
(* Properties of one VlanPool (SpecVlan) *)

\* C10 (vlan sequencing): the ids alloc() returns are first, first + 1, ...,
\* each within [first, last), and the alloc() made after last - first ids
\* were issued fails
VlanSequencing ==
    /\ \A i \in 1..Len(vissued) :
          /\ vissued[i] = vpool.first + i - 1
          /\ vpool.first <= vissued[i] /\ vissued[i] < vpool.last
    /\ vlast.op = "alloc" =>
          LET issuedBefore == IF vlast.ok THEN Len(vissued) - 1 ELSE Len(vissued)
          IN  /\ (issuedBefore = vpool.last - vpool.first) => ~vlast.ok
              /\ vlast.ok => vlast.id = vissued[Len(vissued)]

\* C10, its case: a pool of at least two ids is used up and the next
\* alloc() fails
VlanSequencingReached ==
    /\ vlast.op = "alloc" /\ ~vlast.ok
    /\ Len(vissued) = vpool.last - vpool.first
    /\ Len(vissued) >= 2

-----------------------------------------------------------------------------
(* Properties of the runs of alloc_ips (Spec) *)

\* the records of the result, by key, and those of the snapshot the run took
Issued == Records(res)

Snapshot == Load(pfile)

SameAllocation(r, q) ==
    /\ r.cidr = q.cidr
    /\ r.ip_range = q.ip_range
    /\ r.gateway = q.gateway
    /\ r.vlan = q.vlan

\* C1 (idempotence): when a first run (empty snapshot) of a schema
\* succeeded with output O, a run of the same schema with O as the
\* snapshot succeeds and gives every entry the record it has in O: the
\* same network, ip range, gateway, vlan id, prefix length and id
Idempotence ==
    (pinfo.first /\ pinfo.ipam = d_ipam) =>
        /\ pc # "failed"
        /\ pc = "done" =>
              /\ DOMAIN Issued = DOMAIN Snapshot
              /\ \A k \in DOMAIN Issued :
                    /\ SameAllocation(Issued[k], Snapshot[k])
                    /\ Issued[k].prefixlen = Snapshot[k].prefixlen
                    /\ Issued[k].metadata.id = Snapshot[k].metadata.id

\* C1, its case: the second run of a schema of three entries, one with a
\* vlan id and one with a range taken from another entry's network, is done
IdempotenceReached ==
    /\ pc = "done" /\ pinfo.first /\ pinfo.ipam = d_ipam
    /\ Len(old) = 3 /\ new = <<>>
    /\ \E k \in DOMAIN Issued : Issued[k].metadata.type = "ip_range"
    /\ \E k \in DOMAIN Issued : Issued[k].vlan # None

\* C2 (stability under growth): the input file only grows between the runs
\* and each run takes the output of the last successful one as snapshot;
\* every entry of the snapshot then gets the network, ip range, gateway and
\* vlan id it has in the snapshot
Stability ==
    pc = "done" =>
        \A k \in DOMAIN Snapshot :
            /\ k \in DOMAIN Issued
            /\ SameAllocation(Issued[k], Snapshot[k])

\* C2, its case: a third run, whose two old entries draw from one pool and
\* stand in the file in the reverse order of their ids, behind a new entry
\* of the same pool
StabilityReached ==
    /\ pc = "done" /\ Len(old) = 2 /\ Len(new) = 1
    /\ LET keys == SchemaKeys(d_ipam, 1) IN
       /\ keys[1] = new[1].k
       /\ Snapshot[keys[2]].metadata.id > Snapshot[keys[3]].metadata.id
       /\ \A i \in 1..3 : Issued[keys[i]].metadata.label = "b"

\* C3 (non-overlap): in a successful run the networks of any two entries
\* that got a fresh subnet share no address
NonOverlap ==
    pc = "done" =>
        \A k1, k2 \in DOMAIN Issued :
            (/\ k1 # k2
             /\ Issued[k1].metadata.type = "subnet"
             /\ Issued[k2].metadata.type = "subnet")
            => ~Overlaps(Issued[k1].cidr, Issued[k2].cidr)

\* C3, its case: two entries drew from the pool s2 and one from s3, the
\* pool derived from s2
NonOverlapReached ==
    /\ pc = "done"
    /\ \E k1, k2, k3 \in DOMAIN Issued :
          /\ k1 # k2
          /\ Issued[k1].metadata.label = "b" /\ Issued[k2].metadata.label = "b"
          /\ Issued[k3].metadata.label = "c"

MaxOf(S) == IF S = {} THEN 0
            ELSE LET x == CHOOSE y \in S : \A z \in S : z <= y IN x

\* C4 (id monotonicity): an entry of the snapshot keeps its id, the ids of
\* one run are pairwise distinct, and the new entries get max(ids of the
\* snapshot) + 1, + 2, ... in the order of the input file (from 1 when the
\* snapshot is empty)
IdMonotonicity ==
    pc = "done" =>
        LET keys == SchemaKeys(d_ipam, 1)
            IsNew(k) == k \notin DOMAIN Snapshot
            newKeys == SelectSeq(keys, IsNew)
            last == MaxOf({Snapshot[k].metadata.id : k \in DOMAIN Snapshot})
        IN  /\ \A k \in DOMAIN Snapshot :
                  Issued[k].metadata.id = Snapshot[k].metadata.id
            /\ \A k1, k2 \in DOMAIN Issued :
                  k1 # k2 => Issued[k1].metadata.id # Issued[k2].metadata.id
            /\ \A i \in 1..Len(newKeys) : Issued[newKeys[i]].metadata.id = last + i

\* C4, its case: a run with an old entry and two new ones, a new one
\* standing first in the file
IdMonotonicityReached ==
    /\ pc = "done" /\ Len(old) = 1 /\ Len(new) = 2
    /\ SchemaKeys(d_ipam, 1)[1] \notin DOMAIN Snapshot

\* the input of the deferred dependency example: a node with the entries
\* x (prefixlen 30 from 10.0.0.0/24) and y (size 1 from ".x")
DeferredExample ==
    /\ Len(d_ipam) = 1
    /\ Range(d_ipam[1].schema)
         = { [name |-> "x", label |-> "a", req |-> "prefixlen", prefixlen |-> 30, size |-> 0],
             [name |-> "y", label |-> "ra", req |-> "size", prefixlen |-> None, size |-> 1] }
    /\ DeclOf(d_subnet, NodeSubnet["a"]).cidr = Net(IP(10, 0, 0, 0), 24)
    /\ NodeIpRange["ra"] = <<".", "x">>

\* C7 (deferred dependency): on that input the run succeeds, x gets
\* 10.0.0.0/30 and y gets exactly one address of x's usable range that is
\* not the gateway
DeferredDependency ==
    (DeferredExample /\ pc \in {"done", "failed"}) =>
        /\ pc = "done"
        /\ LET n == d_ipam[1].node
               A == Issued[<<n, "x">>]
               B == Issued[<<n, "y">>]
           IN  /\ A.cidr = Net(IP(10, 0, 0, 0), 30)
               /\ B.ip_range.first = B.ip_range.last
               /\ A.ip_range.first <= B.ip_range.first
               /\ B.ip_range.last <= A.ip_range.last
               /\ B.ip_range.first # A.gateway

\* C8 (gateway and usable range): a fresh subnet of at least 4 addresses has
\* the range net[1] .. net[-2] and the gateway net[-2]; a smaller one has
\* the whole network as range and no gateway
GatewayRule ==
    \A k \in DOMAIN tmp :
        tmp[k].metadata.type = "subnet" =>
            LET first == tmp[k].cidr.first
                size == 2 ^ (32 - tmp[k].cidr.plen)
                last == first + size - 1
            IN  IF size >= 4
                THEN /\ tmp[k].ip_range = [first |-> first + 1, last |-> last - 1]
                     /\ tmp[k].gateway = last - 1
                ELSE /\ tmp[k].ip_range = [first |-> first, last |-> last]
                     /\ tmp[k].gateway = None

\* C8, its case: a run allocated a /30 (range .1 - .2, gateway .2) and a /31
GatewayRuleReached ==
    /\ \E k \in DOMAIN tmp :
          /\ tmp[k].cidr.plen = 30
          /\ tmp[k].ip_range = [first |-> tmp[k].cidr.first + 1,
                                last |-> tmp[k].cidr.first + 2]
          /\ tmp[k].gateway = tmp[k].cidr.first + 2
    /\ \E k \in DOMAIN tmp :
          /\ tmp[k].metadata.type = "subnet"
          /\ tmp[k].cidr.plen = 31
          /\ tmp[k].gateway = None

-----------------------------------------------------------------------------
(* Properties of the runs of alloc_ips, continued (Spec) *)

\* C11 (fail whole): a run that completes returns one record for every
\* declared entry, the nodes in the order of the input file and each node's
\* entries in the order of its schema; a run that fails (at its first error)
\* returns no result, and no result exists before the run has completed
FailWhole ==
    /\ pc = "done" =>
          /\ Len(res) = Len(d_ipam)
          /\ \A i \in DOMAIN d_ipam :
                /\ res[i].node = d_ipam[i].node
                /\ Len(res[i].ipa) = Len(d_ipam[i].schema)
                /\ \A j \in DOMAIN d_ipam[i].schema :
                      /\ res[i].ipa[j].name = d_ipam[i].schema[j].name
                      /\ res[i].ipa[j].rec = tmp[<<d_ipam[i].node, res[i].ipa[j].name>>]
          /\ DOMAIN tmp = DeclaredKeys
    /\ pc = "failed" => (res = <<>> /\ err # "")
    /\ pc \in {"idle", "old", "new", "assemble"} => res = <<>>

\* C11, its case: a run failed after it had allocated for some entries, and
\* nothing is returned
FailWholeReached ==
    /\ pc = "failed" /\ res = <<>>
    /\ DOMAIN tmp # {} /\ DOMAIN tmp # DeclaredKeys
    /\ err \in {"SubnettingError", "StopIteration", "AssertionError"}

-----------------------------------------------------------------------------
(* Properties of convert_subnets (SpecConvert) *)

\* the declarations of d['subnet'] that give a 'cidr'
DirectDecls == {i \in DOMAIN d_subnet : d_subnet[i].kind = "cidr"}

DirectClash ==
    \E i, j \in DirectDecls : i # j /\ Overlaps(d_subnet[i].cidr, d_subnet[j].cidr)

\* convert_subnets returned: the run is past it and has not failed
Materialised == pc \in {"old", "new", "assemble", "done"}

\* C12 (overlap rejection): when the block of a 'cidr' declaration intersects
\* the block of another one, the run fails before any entry is allocated
\* (with the assertion's error when there are 'cidr' declarations only); a
\* run that gets past convert_subnets has direct pools whose blocks are
\* pairwise disjoint
OverlapRejection ==
    /\ (DirectClash /\ pc # "idle") =>
          /\ pc = "failed"
          /\ tmp = EmptyMap /\ ipr = EmptyMap
          /\ DirectDecls = DOMAIN d_subnet => err = "AssertionError"
    /\ Materialised =>
          \A i, j \in DirectDecls :
              (i # j /\ d_subnet[i].name \in DOMAIN ipp /\ d_subnet[j].name \in DOMAIN ipp)
              => ~IPSetIntersects(ipp[d_subnet[i].name].pool \cup ipp[d_subnet[i].name].reserved,
                                  ipp[d_subnet[j].name].pool \cup ipp[d_subnet[j].name].reserved)

\* C12, its case: three 'cidr' declarations, the third one inside the first
\* without being equal to it, and the run failed on the assertion
OverlapRejectionReached ==
    /\ pc = "failed" /\ err = "AssertionError"
    /\ DirectDecls = DOMAIN d_subnet
    /\ ~Overlaps(d_subnet[1].cidr, d_subnet[2].cidr)
    /\ Overlaps(d_subnet[1].cidr, d_subnet[3].cidr)
    /\ d_subnet[1].cidr # d_subnet[3].cidr

-----------------------------------------------------------------------------
(* Properties of one IPPool, continued (SpecPool) *)

\* C13 (allocate_biggest_subnet): on a non-empty free set the call returns
\* the largest block of the compacted free set (the smallest prefix length,
\* the lowest address among equals) and moves it from the free set to the
\* reserved set; on an empty free set it fails
BiggestSubnet ==
    ulast.op = "allocate_biggest_subnet" =>
        LET free == Compact(ulast.before.pool) IN
        IF free = {} THEN ~ulast.ok
        ELSE /\ ulast.ok
             /\ ulast.subnet \in free
             /\ \A c \in free :
                   \/ ulast.subnet.plen < c.plen
                   \/ (ulast.subnet.plen = c.plen /\ ulast.subnet.first <= c.first)
             /\ ~IPSetIntersects(upool.pool, {ulast.subnet})
             /\ IPSetIntersects(upool.reserved, {ulast.subnet})

-----------------------------------------------------------------------------
(* Properties of convert_subnets, continued (SpecConvert) *)

DeclaredSubnets == {d_subnet[i].name : i \in DOMAIN d_subnet}

\* C14 (derived-subnet resolution): once convert_subnets has returned, every
\* declared name has its pool, whatever the order of the declarations, and
\* the pool of a 'from' declaration wraps a block of the asked prefix length
\* that its parent's pool has reserved
DerivedResolution ==
    Materialised =>
        /\ DeclaredSubnets \subseteq DOMAIN ipp
        /\ \A i \in DOMAIN d_subnet :
              d_subnet[i].kind = "from" =>
                  /\ ipp[d_subnet[i].name].input.plen = d_subnet[i].prefixlen
                  /\ IPSetIntersects(ipp[d_subnet[i].from].reserved,
                                     {ipp[d_subnet[i].name].input})

RECURSIVE DerivesIn(_, _, _)
\* following 'from' from the name k, n times at most, comes back to a name
\* already passed
DerivesIn(k, seen, n) ==
    IF k \in seen THEN TRUE
    ELSE IF n = 0 \/ k \notin DeclaredSubnets THEN FALSE
    ELSE LET v == DeclOf(d_subnet, k) IN
         IF v.kind # "from" THEN FALSE
         ELSE DerivesIn(v.from, seen \cup {k}, n - 1)

\* the derive-from relation of d['subnet'] holds a cycle
Cyclic == \E k \in DeclaredSubnets : DerivesIn(k, {}, Len(d_subnet))

\* C15 (cycle detection): when the derive-from relation holds a cycle, a
\* subnet derived from itself included, convert_subnets ends the run with
\* an error of its own; it does not call itself until the interpreter's
\* stack is used up
CycleDetection ==
    (Cyclic /\ pc # "idle") =>
        /\ pc = "failed"
        /\ err # "RecursionError"

-----------------------------------------------------------------------------
(* Properties of one VlanPool under alloc() and unused() (SpecVlanDiag) *)

\* C16 (unused() does not mutate): in every state unused() returns
\* (cursor, last) and leaves the pool as it was, so that the next alloc()
\* and the next unused() give what they would have given without it
UnusedPure ==
    vlast.op = "unused" =>
        /\ vlast.ok
        /\ vlast.lo = vlast.before.next
        /\ vlast.hi = vlast.before.last
        /\ vpool = vlast.before

-----------------------------------------------------------------------------
(* Properties of one IpRangeAllocator, continued (SpecSlicer) *)

\* C17 (range exhausted): alloc(size, from_the_back) fails whenever size is
\* at least the number of addresses left, a failing alloc leaves the range
\* as it was, and so the range always holds at least one address
RangeExhausted ==
    /\ slast.op = "alloc" =>
          /\ slast.arg >= RangeSize(slast.before) => ~slast.ok
          /\ ~slast.ok => srange = slast.before
    /\ RangeSize(srange) >= 1

\* C17, its case: a range cut down to one address by earlier calls, and a
\* call from the back for as many addresses as are left has failed
RangeExhaustedReached ==
    /\ slast.op = "alloc" /\ ~slast.ok /\ slast.back
    /\ slast.arg >= 1 /\ slast.arg = RangeSize(slast.before)
    /\ srange = slast.before
    /\ srange.first > IP(10, 0, 0, 1)

-----------------------------------------------------------------------------
(* Properties of one IPPool: when allocate_subnet fails (SpecPool) *)

RECURSIVE AddressesIn(_, _)
\* how many addresses of the block b the blocks of S hold, S a set of blocks
\* no two of which overlap
AddressesIn(b, S) ==
    IF S = {} THEN 0
    ELSE LET c == CHOOSE x \in S : TRUE
             shared == IF ~Overlaps(b, c) THEN 0
                       ELSE IF NetSize(b) <= NetSize(c) THEN NetSize(b) ELSE NetSize(c)
         IN  shared + AddressesIn(b, S \ {c})

\* the aligned blocks of the prefix length that share an address with S
AlignedBlocks(S, prefixlen) ==
    UNION { IF c.plen <= prefixlen
            THEN {Net(c.first + i * (2 ^ (Width - prefixlen)), prefixlen) :
                     i \in 0..(2 ^ (prefixlen - c.plen) - 1)}
            ELSE {Net(c.first - (c.first % (2 ^ (Width - prefixlen))), prefixlen)}
          : c \in S }

\* an aligned block of the prefix length lies wholly inside the addresses of S
FitsIn(S, prefixlen) ==
    \E b \in AlignedBlocks(S, prefixlen) : AddressesIn(b, S) = NetSize(b)

\* C18 (pool exhausted exactly when impossible): allocate_subnet(p) fails if
\* and only if no aligned block of prefix length p lies wholly inside the
\* free set, that is if and only if the compacted free set has no block of
\* prefix length <= p; a failing call leaves the addresses of the free set
\* and of the reserved set as they were
ExhaustedIffImpossible ==
    ulast.op = "allocate_subnet" =>
        /\ ~ulast.ok <=> ~FitsIn(ulast.before.pool, ulast.arg)
        /\ ~ulast.ok <=> ~(\E c \in Compact(ulast.before.pool) : c.plen <= ulast.arg)
        /\ ~ulast.ok => /\ SameAddresses(upool.pool, ulast.before.pool)
                        /\ upool.reserved = ulast.before.reserved

\* C18, its case: the free set holds addresses enough for the asked block,
\* in two blocks that do not make one, and the call has failed
ExhaustedIffImpossibleReached ==
    /\ ulast.op = "allocate_subnet" /\ ~ulast.ok
    /\ Cardinality(ulast.before.pool) >= 2
    /\ AddressesIn(ulast.before.input, ulast.before.pool) >= 2 ^ (Width - ulast.arg)

-----------------------------------------------------------------------------
(* Properties of the runs of alloc_ips: ranges taken from an entry (Spec) *)

\* the entries of the run that got a range out of another entry's network
RangeEntries == {k \in DOMAIN tmp : tmp[k].metadata.type = "ip_range"}

RangesDisjoint(r, q) == r.last < q.first \/ q.last < r.first

\* C19 (shared slicer per parent): the entries that name the same parent
\* entry, old ones and new ones alike, draw from the one IpRangeAllocator
\* kept for that parent; their ranges are pairwise disjoint, lie inside the
\* parent's network and hold neither its network address, nor its broadcast
\* address, nor its gateway
SharedSlicer ==
    \A k \in RangeEntries :
        LET parent == tmp[k].metadata.parent
            net == tmp[parent].cidr
            r == tmp[k].ip_range
        IN  /\ parent \in DOMAIN ipr
            /\ RangesDisjoint(r, ipr[parent])
            /\ net.first < r.first /\ r.last < NetLast(net)
            /\ ~(r.first <= tmp[parent].gateway /\ tmp[parent].gateway <= r.last)
            /\ \A k2 \in RangeEntries :
                  (k2 # k /\ tmp[k2].metadata.parent = parent)
                  => RangesDisjoint(r, tmp[k2].ip_range)

\* C19, its case: a run is done in which an old entry and a new entry took
\* their ranges from the same parent entry
SharedSlicerReached ==
    /\ pc = "done"
    /\ \E i \in DOMAIN old, j \in DOMAIN new :
          /\ old[i].k \in RangeEntries /\ new[j].k \in RangeEntries
          /\ tmp[old[i].k].metadata.parent = tmp[new[j].k].metadata.parent

-----------------------------------------------------------------------------
(* Properties of the reserved blocks of a run's pools (SpecConvert) *)

\* the reserved blocks of the run, each with the name of its pool
ReservedBlocks == UNION {{<<k, b>> : b \in ipp[k].reserved} : k \in DOMAIN ipp}

RECURSIVE DerivedFrom(_, _, _)
\* following 'from' from the name k, n times at most, comes to the name a
DerivedFrom(k, a, n) ==
    IF n = 0 \/ k \notin DeclaredSubnets THEN FALSE
    ELSE LET v == DeclOf(d_subnet, k) IN
         /\ v.kind = "from"
         /\ (v.from = a \/ DerivedFrom(v.from, a, n - 1))

\* C20 as claimed (cross-pool reserved disjointness): at every point of a
\* run, any two distinct reserved blocks, taken over all the pools of the
\* run, direct and derived alike, do not overlap
ReservedDisjoint ==
    \A x, y \in ReservedBlocks : x # y => ~Overlaps(x[2], y[2])

\* C20 as amended: two distinct reserved blocks overlap only when the pool of
\* one is derived, directly or through other derived pools, from the pool of
\* the other, and the block of the derived pool then lies inside the block of
\* the pool it is derived from; the reserved blocks of pools not derived from
\* one another do not overlap
ReservedDisjointUnlessDerived ==
    \A x, y \in ReservedBlocks :
        (x # y /\ Overlaps(x[2], y[2])) =>
            \/ DerivedFrom(x[1], y[1], Len(d_subnet)) /\ Contains(y[2], x[2])
            \/ DerivedFrom(y[1], x[1], Len(d_subnet)) /\ Contains(x[2], y[2])

\* C20, its case: a direct pool, a second direct pool and a pool derived
\* from the second have each reserved a block for an entry
ReservedDisjointUnlessDerivedReached ==
    /\ pc = "done"
    /\ DOMAIN ipp = SubnetNames
    /\ \A k \in SubnetNames : ipp[k].reserved # {}
    /\ DerivedFrom("s3", "s2", 1)
    /\ ~DerivedFrom("s2", "s1", 1) /\ ~DerivedFrom("s1", "s2", 1)

-----------------------------------------------------------------------------
(* C21 *)

RECURSIVE PositionIn(_, _, _)
\* the index of k in the sequence keys, from index i on
PositionIn(keys, k, i) ==
    IF i > Len(keys) THEN 0
    ELSE IF keys[i] = k THEN i
    ELSE PositionIn(keys, k, i + 1)

\* C21 (reconciler partition and order): once filter_entries has run, every
\* entry of the schema is in exactly one of old and new, in old if and only
\* if its (node, name) is in the snapshot; the old entries carry the ids of
\* the snapshot and stand in ascending order of them, the new entries stand
\* in declaration order; and no entry of new is allocated before every
\* entry of old is
ReconcilerOrder ==
    (pc \in {"old", "new", "assemble", "done", "failed"} /\ DOMAIN ipp # {}) =>
        LET keys == SchemaKeys(d_ipam, 1)
            oldKeys == {old[i].k : i \in DOMAIN old}
            newKeys == {new[i].k : i \in DOMAIN new}
        IN  /\ Len(old) + Len(new) = Len(keys)
            /\ oldKeys \cap newKeys = {}
            /\ oldKeys = Range(keys) \cap DOMAIN Snapshot
            /\ newKeys = Range(keys) \ DOMAIN Snapshot
            /\ \A i \in DOMAIN old :
                   old[i].s.metadata.id = Snapshot[old[i].k].metadata.id
            /\ \A i, j \in DOMAIN old :
                   i < j => old[i].s.metadata.id < old[j].s.metadata.id
            /\ \A i, j \in DOMAIN new :
                   i < j => PositionIn(keys, new[i].k, 1) < PositionIn(keys, new[j].k, 1)
            /\ pc = "old" => DOMAIN tmp = {}
            /\ pc = "new" => DOMAIN tmp = oldKeys
            /\ (DOMAIN tmp \cap newKeys # {}) => oldKeys \subseteq DOMAIN tmp

\* C21, its case: run_for(old) is over and run_for(new) is to come; the two
\* old entries, one of them a deferred one, stand in the file in the reverse
\* order of their ids, behind the new entry
ReconcilerOrderReached ==
    /\ pc = "new" /\ Len(old) = 2 /\ Len(new) = 1
    /\ LET keys == SchemaKeys(d_ipam, 1) IN
       /\ keys[1] = new[1].k
       /\ old[1].k = keys[3] /\ old[2].k = keys[2]
       /\ \E i \in DOMAIN old : old[i].s.req = "size"
       /\ DOMAIN tmp = {keys[2], keys[3]}

-----------------------------------------------------------------------------
(* C22 *)

\* C22 (the snapshot is read-only): all through a run of alloc_ips, be it
\* one that succeeds or one that fails, the snapshot p holds what was read
\* from the file of the last run, the metadata of every old entry (id, type,
\* label, parent) included, also when the schema now gives the entry another
\* label or another parent
SnapshotReadOnly ==
    pc \in {"old", "new", "assemble", "done", "failed"} => p = Load(pfile)

-----------------------------------------------------------------------------
(* C23 *)

\* the position at which d['subnet'] holds a 'from' declaration that the
\* input of the last run did not have, all the rest being as it was
GainedAt ==
    {pos \in DOMAIN d_subnet :
        /\ d_subnet[pos].kind = "from"
        /\ d_subnet = InsertAt(pinfo.subnet, pos, d_subnet[pos])}

\* C23 (stability when a derived subnet is added): the run whose input
\* differs from that of the last run by one more declaration 'from X,
\* prefixlen P', and whose snapshot is the output of the last run, gives
\* every entry of the snapshot that draws from X the network it has in the
\* snapshot
DerivedAddStability ==
    (pc = "done" /\ pinfo.ipam = d_ipam) =>
        \A pos \in GainedAt : \A k \in DOMAIN Snapshot :
            NodeSubnet[Snapshot[k].metadata.label] = d_subnet[pos].from =>
                /\ k \in DOMAIN Issued
                /\ Issued[k].cidr = Snapshot[k].cidr

-----------------------------------------------------------------------------
(* C24 *)

\* C24 (derived ranges never collide): in a successful run, two distinct
\* entries of type ip_range that resolve to the same network have ip ranges
\* that share no address, also when the parent one of them names is itself
\* an entry of type ip_range
DerivedRangesDisjoint ==
    pc = "done" =>
        \A k1, k2 \in RangeEntries :
            (k1 # k2 /\ tmp[k1].cidr = tmp[k2].cidr) =>
                \/ tmp[k1].ip_range.last < tmp[k2].ip_range.first
                \/ tmp[k2].ip_range.last < tmp[k1].ip_range.first
====
